---- MODULE Spec2Model ----
(***************************************************************************)
(* Model of the BMS inventory application: the browser-side core           *)
(* (src/script.js: BMS_Cloud, BMS_Core over localStorage) and the Google   *)
(* Apps Script gateway (src/google_apps_script.js: doGet, doPost,          *)
(* getAllData, saveRecord over the spreadsheet).                           *)
(*                                                                         *)
(* JavaScript values are modelled as follows.  Strings are TLA+ strings.   *)
(* A value that may be either a number or a string (quantities, amounts,   *)
(* spreadsheet cells) is a tagged record built by Num and Str.  An         *)
(* optional object (the stored active tenant) is a sequence of length 0    *)
(* or 1.  Date.now() is the variable now.                                  *)
(***************************************************************************)
EXTENDS Integers, Sequences, FiniteSets, Bags, TLC

(***************************************************************************)
(* Bounds of the model.                                                    *)
(***************************************************************************)
MaxTime == 3
MaxUsers == 3
MaxInventory == 2
MaxSales == 1
MaxPurchases == 3
MaxExpenses == 1
MaxInFlight == 4
MaxQty == 3
MaxDigits == 2
FilterLen == 2
SyncRows == 2
StockItems == 2
MaxRegTime == 1
LoginUsers == 2

(***************************************************************************)
(* Program constants.                                                      *)
(***************************************************************************)
USERS == "ims_users"
INVENTORY == "ims_inventory"
SALES == "ims_sales"
PURCHASES == "ims_purchases"
EXPENSES == "ims_expenses"
BANNER == "ims_banner"
VERTICAL_BANNER == "ims_vertical_banner"
CURRENT_USER == "ims_current_user"
CLOUD_URL == "ims_cloud_url"

ADMIN == "Admin"
USER == "User"

INITIAL_ADMIN ==
    [id |-> "admin_001", companyName |-> "Admin", username |-> "Admin",
     contactPerson |-> "Admin", password |-> "admin123", role |-> ADMIN,
     status |-> "Approved"]

(***************************************************************************)
(* Values the operations are called with.                                  *)
(***************************************************************************)
CompanyNames == {"Acme", "ACME", "Bolt"}
ContactNames == {"Owner"}
Passwords == {"pw1", "pw2"}
Statuses == {"Pending", "Approved", "Rejected"}
Brands == {"Widget", "widget"}
Models == {"A"}
Quantities == {1, 2}
Prices == {5}
ItemNames == {"Widget A", "widget a"}
Vendors == {"Vendor1"}
Categories == {"Parts"}
PaymentTypes == {"Cash"}
CloudUrl == "https://script.example/exec"

undefined == "<undefined>"
null == "<null>"

(***************************************************************************)
(* JavaScript primitives.                                                  *)
(***************************************************************************)
Num(n) == [t |-> "num", n |-> n, s |-> ""]
Str(s) == [t |-> "str", n |-> 0, s |-> s]

\* The largest number a string of MaxDigits decimal digits denotes.
RECURSIVE Pow10(_)
Pow10(k) == IF k = 0 THEN 1 ELSE 10 * Pow10(k - 1)

\* Number(v): a number is itself, '' is 0, a decimal string is its value.
ToNumber(v) ==
    IF v.t = "num" THEN v.n
    ELSE IF v.s = "" THEN 0
    ELSE CHOOSE n \in (0 - Pow10(Len(v.s)))..Pow10(Len(v.s)) : ToString(n) = v.s

\* String(v)
ToStr(v) == IF v.t = "num" THEN ToString(v.n) ELSE v.s

\* parseInt(v), parseFloat(v) of an integral number or a decimal string.
parseInt(v) == ToNumber(IF v.t = "num" THEN Str(ToString(v.n)) ELSE v)
parseFloat(v) == ToNumber(IF v.t = "num" THEN Str(ToString(v.n)) ELSE v)

\* a + b: concatenation as soon as one operand is a string.
JsAdd(a, b) ==
    IF a.t = "str" \/ b.t = "str" THEN Str(ToStr(a) \o ToStr(b))
    ELSE Num(a.n + b.n)

JsSub_One(a, b) == Num(ToNumber(a) - 1)

\* a - b, a * b: always numeric.
JsSub(a, b) == Num(ToNumber(a) - ToNumber(b))
JsMul(a, b) == Num(ToNumber(a) * ToNumber(b))

JsLess_Swapped(a, b) == ToNumber(b) < ToNumber(a)

\* a < b where at least one operand is a number: numeric comparison.
JsLess(a, b) == ToNumber(a) < ToNumber(b)

\* !v
Falsy(v) == (v.t = "num" /\ v.n = 0) \/ (v.t = "str" /\ v.s = "")

\* String.prototype.toLowerCase on the strings of the model.
toLowerCase(s) ==
    CASE s \in {"Acme", "ACME", "acme"} -> "acme"
      [] s \in {"Bolt", "BOLT", "bolt"} -> "bolt"
      [] s \in {"Admin", "ADMIN", "admin"} -> "admin"
      [] s \in {"Owner", "OWNER", "owner"} -> "owner"
      [] s \in {"Widget A", "widget A", "widget a"} -> "widget a"
      [] OTHER -> s

\* String.prototype.trim on the strings of the model.
trim(s) ==
    CASE s = " Acme " -> "Acme"
      [] s = "Owner " -> "Owner"
      [] s = " pw1" -> "pw1"
      [] OTHER -> s

\* Array.prototype.filter
filter(arr, Test(_)) == SelectSeq(arr, Test)

\* Array.prototype.findIndex, 1-based; 0 stands for -1 (no element passes).
findIndex(arr, Test(_)) ==
    IF \E i \in 1..Len(arr) : Test(arr[i])
    THEN CHOOSE i \in 1..Len(arr) : Test(arr[i]) /\ \A j \in 1..(i - 1) : ~Test(arr[j])
    ELSE 0

splice_First(arr, i) == Tail(arr)

\* Array.prototype.splice(i, 1)
splice(arr, i) == [k \in 1..(Len(arr) - 1) |-> IF k < i THEN arr[k] ELSE arr[k + 1]]

(***************************************************************************)
(* State.                                                                  *)
(***************************************************************************)
VARIABLES
    users,          \* localStorage ims_users
    inventory,      \* localStorage ims_inventory
    sales,          \* localStorage ims_sales
    purchases,      \* localStorage ims_purchases
    expenses,       \* localStorage ims_expenses
    currentUser,    \* localStorage ims_current_user: <<>> or <<tenant>>
    banner,         \* localStorage ims_banner
    verticalBanner, \* localStorage ims_vertical_banner (null when unset)
    url,            \* BMS_Cloud.url / localStorage ims_cloud_url
    now,            \* Date.now()
    phase,          \* position of the page: constructor and startup pull
    response,       \* body last received for the startup pull
    outbox,         \* bag of save_record requests in flight
    sheets,         \* the spreadsheet behind the gateway
    running,        \* executions of doPost that have started and not yet returned
    ret,            \* operation last called and the value it returned
    calls           \* storage writes and pushRecord calls of that operation, in program order

vars == <<users, inventory, sales, purchases, expenses, currentUser, banner,
          verticalBanner, url, now, phase, response, outbox, sheets, running, ret, calls>>

tables == <<users, inventory, sales, purchases, expenses>>
settings == <<banner, verticalBanner>>
local == <<users, inventory, sales, purchases, expenses, currentUser, banner, verticalBanner>>
remote == <<outbox, sheets, running>>

\* One statement of an operation that touches localStorage, the gateway or
\* the timer.
Stored(key) == [e |-> "setItem", key |-> key]
Removed(key) == [e |-> "removeItem", key |-> key]
Pushed(key) == [e |-> "pushRecord", key |-> key]
Timer == [e |-> "setTimeout", key |-> ""]

pushRecord_Always(box, key, data) ==
    box (+) SetToBag({[action |-> "save_record", key |-> key, data |-> data]})

(***************************************************************************)
(* BMS_Cloud.pushRecord: the bag of requests in flight after the call.     *)
(***************************************************************************)
pushRecord(box, key, data) ==
    IF url = "" THEN box
    ELSE box (+) SetToBag({[action |-> "save_record", key |-> key, data |-> data]})

\* Room for k more requests in flight.
Room(k) == url = "" \/ BagCardinality(outbox) + k <= MaxInFlight

Ret(op, ok, msg, rows) == [op |-> op, ok |-> ok, msg |-> msg, rows |-> rows]

(***************************************************************************)
(* BMS_Core.initStorage and the constructor.                               *)
(***************************************************************************)
initStorage_KeepsStored(us) ==
    IF \E i \in 1..Len(us) : us[i].id = "admin_001" THEN us
    ELSE <<INITIAL_ADMIN>> \o us

initStorage(us) == <<INITIAL_ADMIN>> \o filter(us, LAMBDA u : u.id # "admin_001")

\* new BMS_Core(): initStorage writes the users table, and the banner when
\* none or an empty one is stored; then the timer is set when a URL is stored.
constructorCalls(u) ==
    <<Stored(USERS)>>
    \o (IF banner \in {null, ""} THEN <<Stored(BANNER)>> ELSE <<>>)
    \o (IF u # "" THEN <<Timer>> ELSE <<>>)

\* BMS_Cloud.setUrl
setUrl(u) ==
    /\ url' = u
    /\ ret' = Ret("setUrl", TRUE, "", <<>>)
    /\ calls' = <<Stored(CLOUD_URL)>>
    /\ UNCHANGED <<local, now, phase, response, outbox, sheets, running>>

\* The clock advances.
Tick ==
    /\ now < MaxTime
    /\ now' = now + 1
    /\ UNCHANGED <<local, url, phase, response, outbox, sheets, running, ret, calls>>

(***************************************************************************)
(* Authentication and tenant lifecycle.                                    *)
(***************************************************************************)
sameName_Exact(u, username) == u.username = username

\* u.username.toLowerCase() === username.toLowerCase()
sameName(u, username) == toLowerCase(u.username) = toLowerCase(username)

login_SkipsApproval(username0, customerName0, password0) ==
    LET username == trim(username0)
        customerName == trim(customerName0)
        password == trim(password0)
        i == findIndex(users, LAMBDA u : sameName(u, username))
    IN  /\ IF i = 0
           THEN /\ ret' = Ret("login", FALSE, "not found", <<>>)
                /\ calls' = <<>>
                /\ UNCHANGED currentUser
           ELSE IF toLowerCase(users[i].contactPerson) # toLowerCase(customerName)
           THEN /\ ret' = Ret("login", FALSE, "Incorrect Customer Name", <<>>)
                /\ calls' = <<>>
                /\ UNCHANGED currentUser
           ELSE IF users[i].password # password
           THEN /\ ret' = Ret("login", FALSE, "Incorrect Password.", <<>>)
                /\ calls' = <<>>
                /\ UNCHANGED currentUser
           ELSE /\ currentUser' = <<users[i]>>
                /\ ret' = Ret("login", TRUE, "", <<users[i]>>)
                /\ calls' = <<Stored(CURRENT_USER)>>
        /\ UNCHANGED <<tables, settings, url, now, phase, response, outbox, sheets, running>>

login(username0, customerName0, password0) ==
    LET username == trim(username0)
        customerName == trim(customerName0)
        password == trim(password0)
        i == findIndex(users, LAMBDA u : sameName(u, username))
    IN  /\ IF i = 0
           THEN /\ ret' = Ret("login", FALSE, "not found", <<>>)
                /\ calls' = <<>>
                /\ UNCHANGED currentUser
           ELSE IF toLowerCase(users[i].contactPerson) # toLowerCase(customerName)
           THEN /\ ret' = Ret("login", FALSE, "Incorrect Customer Name", <<>>)
                /\ calls' = <<>>
                /\ UNCHANGED currentUser
           ELSE IF users[i].password # password
           THEN /\ ret' = Ret("login", FALSE, "Incorrect Password.", <<>>)
                /\ calls' = <<>>
                /\ UNCHANGED currentUser
           ELSE IF users[i].status # "Approved"
           THEN /\ ret' = Ret("login", FALSE, "Account not approved yet", <<>>)
                /\ calls' = <<>>
                /\ UNCHANGED currentUser
           ELSE /\ currentUser' = <<users[i]>>
                /\ ret' = Ret("login", TRUE, "", <<users[i]>>)
                /\ calls' = <<Stored(CURRENT_USER)>>
        /\ UNCHANGED <<tables, settings, url, now, phase, response, outbox, sheets, running>>

logout ==
    /\ currentUser' = <<>>
    /\ ret' = Ret("logout", TRUE, "", <<>>)
    /\ calls' = <<Removed(CURRENT_USER)>>
    /\ UNCHANGED <<tables, settings, url, now, phase, response, outbox, sheets, running>>

register(companyName, contactPerson, password) ==
    LET username == companyName
        newUser == [id |-> "user_" \o ToString(now), companyName |-> companyName,
                    username |-> username, contactPerson |-> contactPerson,
                    password |-> password, role |-> USER, status |-> "Pending"]
    IN  /\ IF \E i \in 1..Len(users) : sameName(users[i], username)
           THEN /\ ret' = Ret("register", FALSE, "Company Name already registered", <<>>)
                /\ calls' = <<>>
                /\ UNCHANGED <<users, outbox>>
           ELSE /\ Len(users) < MaxUsers
                /\ Room(1)
                /\ users' = Append(users, newUser)
                /\ outbox' = pushRecord(outbox, USERS, newUser)
                /\ ret' = Ret("register", TRUE, "Registration successful", <<>>)
                /\ calls' = <<Stored(USERS), Pushed(USERS)>>
        /\ UNCHANGED <<inventory, sales, purchases, expenses, currentUser, settings,
                       url, now, phase, response, sheets, running>>

resetPassword(userId, newPassword) ==
    LET userIndex == findIndex(users, LAMBDA u : u.id = userId)
        changed == [users EXCEPT ![userIndex].password = newPassword]
    IN  /\ IF userIndex > 0
           THEN /\ Room(1)
                /\ users' = changed
                /\ outbox' = pushRecord(outbox, USERS, changed[userIndex])
                /\ ret' = Ret("resetPassword", TRUE, "", <<>>)
                /\ calls' = <<Stored(USERS), Pushed(USERS)>>
           ELSE /\ ret' = Ret("resetPassword", FALSE, "", <<>>)
                /\ calls' = <<>>
                /\ UNCHANGED <<users, outbox>>
        /\ UNCHANGED <<inventory, sales, purchases, expenses, currentUser, settings,
                       url, now, phase, response, sheets, running>>

updateUserStatus(userId, newStatus) ==
    LET userIndex == findIndex(users, LAMBDA u : u.id = userId)
        changed == [users EXCEPT ![userIndex].status = newStatus]
    IN  /\ IF userIndex > 0 /\ users[userIndex].role # ADMIN
           THEN /\ IF newStatus = "Delete"
                   THEN /\ users' = splice(users, userIndex)
                        /\ UNCHANGED outbox
                   ELSE /\ Room(1)
                        /\ users' = changed
                        /\ outbox' = pushRecord(outbox, USERS, changed[userIndex])
                /\ ret' = Ret("updateUserStatus", TRUE, "", <<>>)
                /\ calls' = IF newStatus = "Delete" THEN <<Stored(USERS)>>
                            ELSE <<Pushed(USERS), Stored(USERS)>>
           ELSE /\ ret' = Ret("updateUserStatus", FALSE, "", <<>>)
                /\ calls' = <<>>
                /\ UNCHANGED <<users, outbox>>
        /\ UNCHANGED <<inventory, sales, purchases, expenses, currentUser, settings,
                       url, now, phase, response, sheets, running>>

setBanner(u) ==
    /\ Room(1)
    /\ banner' = u
    /\ outbox' = pushRecord(outbox, BANNER, [key |-> BANNER, value |-> u])
    /\ ret' = Ret("setBanner", TRUE, "", <<>>)
    /\ calls' = <<Stored(BANNER), Pushed(BANNER)>>
    /\ UNCHANGED <<tables, currentUser, verticalBanner, url, now, phase, response, sheets, running>>

setVerticalBanner(u) ==
    /\ Room(1)
    /\ verticalBanner' = u
    /\ outbox' = pushRecord(outbox, VERTICAL_BANNER, [key |-> VERTICAL_BANNER, value |-> u])
    /\ ret' = Ret("setVerticalBanner", TRUE, "", <<>>)
    /\ calls' = <<Stored(VERTICAL_BANNER), Pushed(VERTICAL_BANNER)>>
    /\ UNCHANGED <<tables, currentUser, banner, url, now, phase, response, sheets, running>>

(***************************************************************************)
(* Owned reads.  user is the stored active tenant, all the stored table.   *)
(***************************************************************************)
owned_IgnoreCase(all, user) ==
    IF user = <<>> \/ user[1].role = ADMIN THEN <<>>
    ELSE filter(all, LAMBDA i : toLowerCase(i.owner) = toLowerCase(user[1].username))

owned(all, user) ==
    IF user = <<>> \/ user[1].role = ADMIN THEN <<>>
    ELSE filter(all, LAMBDA i : i.owner = user[1].username)

getInventory == owned(inventory, currentUser)
getSales == owned(sales, currentUser)
getPurchases == owned(purchases, currentUser)
getExpenses == owned(expenses, currentUser)

Read_BlockedWhilePending(op, rows) ==
    /\ phase # "SyncPending"
    /\ ret' = Ret(op, TRUE, "", rows)
    /\ calls' = <<>>
    /\ UNCHANGED <<local, url, now, phase, response, outbox, sheets, running>>

Read(op, rows) ==
    /\ ret' = Ret(op, TRUE, "", rows)
    /\ calls' = <<>>
    /\ UNCHANGED <<local, url, now, phase, response, outbox, sheets, running>>

callGetInventory == Read("getInventory", getInventory)
callGetSales == Read("getSales", getSales)
callGetPurchases == Read("getPurchases", getPurchases)
callGetExpenses == Read("getExpenses", getExpenses)

(***************************************************************************)
(* Stock, sales and expenses.                                              *)
(***************************************************************************)
\* allInventory.find(i => i.owner === user.username && same name ignoring case)
findItem(all, user, itemName) ==
    findIndex(all, LAMBDA i : i.owner = user.username
                              /\ toLowerCase(i.itemName) = toLowerCase(itemName))

\* The quantity stays within the bounds of the model.
InRange(q) == IF q.t = "num" THEN q.n <= MaxQty ELSE Len(q.s) <= MaxDigits

addStock(vendor, category, brand, model, quantity, cost, paymentType) ==
    IF currentUser = <<>>
    THEN /\ ret' = Ret("addStock", FALSE, "", <<>>)
         /\ calls' = <<>>
         /\ UNCHANGED <<local, url, now, phase, response, outbox, sheets, running>>
    ELSE
    LET user == currentUser[1]
        itemName == brand \o " " \o model
        newPurchase == [id |-> "pur_" \o ToString(now), owner |-> user.username,
                        date |-> now, vendor |-> vendor, category |-> category,
                        brand |-> brand, model |-> model, itemName |-> itemName,
                        quantity |-> Num(parseInt(quantity)),
                        cost |-> Num(parseFloat(cost)), paymentType |-> paymentType]
        i == findItem(inventory, user, itemName)
        stockRecord ==
            IF i > 0
            THEN [inventory[i] EXCEPT !.quantity = JsAdd(@, Num(parseInt(quantity)))]
            ELSE [id |-> "inv_" \o ToString(now), owner |-> user.username,
                  itemName |-> itemName, quantity |-> Num(parseInt(quantity)),
                  avgCost |-> Num(parseFloat(cost))]
    IN  /\ Len(purchases) < MaxPurchases
        /\ i = 0 => Len(inventory) < MaxInventory
        /\ InRange(stockRecord.quantity)
        /\ Room(2)
        /\ purchases' = Append(purchases, newPurchase)
        /\ inventory' = IF i > 0 THEN [inventory EXCEPT ![i] = stockRecord]
                        ELSE Append(inventory, stockRecord)
        /\ outbox' = pushRecord(pushRecord(outbox, PURCHASES, newPurchase),
                                INVENTORY, stockRecord)
        /\ ret' = Ret("addStock", TRUE, "", <<>>)
        /\ calls' = <<Stored(PURCHASES), Pushed(PURCHASES), Stored(INVENTORY), Pushed(INVENTORY)>>
        /\ UNCHANGED <<users, sales, expenses, currentUser, settings, url, now,
                       phase, response, sheets, running>>

processSale(itemName, quantity, price) ==
    IF currentUser = <<>>
    THEN /\ ret' = Ret("processSale", FALSE, "Not logged in", <<>>)
         /\ calls' = <<>>
         /\ UNCHANGED <<local, url, now, phase, response, outbox, sheets, running>>
    ELSE
    LET user == currentUser[1]
        i == findItem(inventory, user, itemName)
        item == [inventory[i] EXCEPT !.quantity = JsSub(@, Num(parseInt(quantity)))]
        newSale == [id |-> "sale_" \o ToString(now), owner |-> user.username,
                    date |-> now, itemName |-> itemName,
                    quantity |-> Num(parseInt(quantity)),
                    price |-> Num(parseFloat(price)),
                    total |-> JsMul(Num(parseInt(quantity)), Num(parseFloat(price)))]
    IN  IF i = 0 \/ JsLess(inventory[i].quantity, quantity)
        THEN /\ ret' = Ret("processSale", FALSE, "Insufficient Stock", <<>>)
             /\ calls' = <<>>
             /\ UNCHANGED <<local, url, now, phase, response, outbox, sheets, running>>
        ELSE /\ Len(sales) < MaxSales
             /\ Room(2)
             /\ inventory' = [inventory EXCEPT ![i] = item]
             /\ sales' = Append(sales, newSale)
             /\ outbox' = pushRecord(pushRecord(outbox, INVENTORY, item), SALES, newSale)
             /\ ret' = Ret("processSale", TRUE, "", <<>>)
             /\ calls' = <<Stored(INVENTORY), Pushed(INVENTORY), Stored(SALES), Pushed(SALES)>>
             /\ UNCHANGED <<users, purchases, expenses, currentUser, settings, url,
                            now, phase, response, sheets, running>>

addExpense(name, amount, date) ==
    IF currentUser = <<>>
    THEN /\ ret' = Ret("addExpense", FALSE, "", <<>>)
         /\ calls' = <<>>
         /\ UNCHANGED <<local, url, now, phase, response, outbox, sheets, running>>
    ELSE
    LET user == currentUser[1]
        newExpense == [id |-> "exp_" \o ToString(now), owner |-> user.username,
                       name |-> name, amount |-> Num(parseFloat(amount)),
                       date |-> IF date = 0 THEN now ELSE date]
    IN  /\ Len(expenses) < MaxExpenses
        /\ Room(1)
        /\ expenses' = Append(expenses, newExpense)
        /\ outbox' = pushRecord(outbox, EXPENSES, newExpense)
        /\ ret' = Ret("addExpense", TRUE, "", <<>>)
        /\ calls' = <<Stored(EXPENSES), Pushed(EXPENSES)>>
        /\ UNCHANGED <<users, inventory, sales, purchases, currentUser, settings,
                       url, now, phase, response, sheets, running>>

(***************************************************************************)
(* The gateway (google_apps_script.js).  A sheet is absent or holds its    *)
(* header row and the data rows; a data row is the record of its cells by  *)
(* header.                                                                 *)
(***************************************************************************)
KEY_MAP ==
    [ims_users |-> "Users", ims_inventory |-> "Inventory", ims_sales |-> "Sales",
     ims_purchases |-> "Purchases", ims_expenses |-> "Expenses",
     ims_banner |-> "Banner", ims_vertical_banner |-> "Banner"]

SheetNames == {"Users", "Inventory", "Sales", "Purchases", "Expenses", "Banner"}
NoSheet == [exists |-> FALSE, rows |-> <<>>]
NumberFields == {"quantity", "avgCost", "cost", "price", "total", "amount"}

\* val || '' for the value of one field of a pushed record
cellOf(h, val) ==
    IF h \in NumberFields THEN (IF Falsy(val) THEN Str("") ELSE val) ELSE val

\* headers.map(h => record[h] || '')
rowData(record) == [h \in DOMAIN record |-> cellOf(h, record[h])]

saveRecord(ss, sheetName, record) ==
    LET sheet == IF ss[sheetName].exists THEN ss[sheetName]
                 ELSE [exists |-> TRUE, rows |-> <<>>]
        data == sheet.rows
    IN  IF sheetName = "Banner"
        THEN LET i == findIndex(data, LAMBDA r : r.key = record.key)
             IN  IF i > 0
                 THEN [ss EXCEPT ![sheetName] =
                          [sheet EXCEPT !.rows[i].value = record.value]]
                 ELSE [ss EXCEPT ![sheetName] =
                          [sheet EXCEPT !.rows = Append(data, record)]]
        ELSE LET rowIndex == findIndex(data, LAMBDA r : r.id = record.id)
             IN  IF rowIndex > 0
                 THEN [ss EXCEPT ![sheetName] =
                          [sheet EXCEPT !.rows[rowIndex] = rowData(record)]]
                 ELSE [ss EXCEPT ![sheetName] =
                          [sheet EXCEPT !.rows = Append(data, rowData(record))]]

doPost(ss, p) ==
    IF p.action = "save_record" /\ p.key \in DOMAIN KEY_MAP
    THEN saveRecord(ss, KEY_MAP[p.key], p.data)
    ELSE ss

\* A value of the data object of a response: an array, a string or nothing.
Arr(a) == [t |-> "array", arr |-> a, str |-> ""]
Text(x) == [t |-> "string", arr |-> <<>>, str |-> x]
Missing == [t |-> "undefined", arr |-> <<>>, str |-> ""]

getAllData(ss) ==
    [key \in DOMAIN KEY_MAP |->
        LET sheet == ss[KEY_MAP[key]]
        IN  IF ~sheet.exists THEN Arr(<<>>)
            ELSE IF KEY_MAP[key] = "Banner"
            THEN LET hits == {i \in 1..Len(sheet.rows) : sheet.rows[i].key = key}
                 IN  IF hits = {} THEN Text("")
                     ELSE Text(sheet.rows[CHOOSE i \in hits : \A j \in hits : j <= i].value)
            ELSE Arr(sheet.rows)]

doGet(ss) == [kind |-> "success", data |-> getAllData(ss)]

\* A request in flight reaches the gateway and doPost runs from tryLock to
\* releaseLock while no other execution touches the spreadsheet.
Deliver ==
    \E p \in BagToSet(outbox) :
        /\ sheets' = doPost(sheets, p)
        /\ outbox' = outbox (-) SetToBag({p})
        /\ UNCHANGED <<local, url, now, phase, response, running, ret, calls>>

Lose_Rollback ==
    \E p \in BagToSet(outbox) :
        /\ outbox' = outbox (-) SetToBag({p})
        /\ inventory' = <<>>
        /\ UNCHANGED <<users, sales, purchases, expenses, currentUser, settings,
                       url, now, phase, response, sheets, running, ret, calls>>

\* A request in flight fails or is abandoned.
Lose ==
    \E p \in BagToSet(outbox) :
        /\ outbox' = outbox (-) SetToBag({p})
        /\ UNCHANGED <<local, url, now, phase, response, sheets, running, ret, calls>>

(***************************************************************************)
(* doPost step by step. lock.tryLock(10000) returns true when it got the   *)
(* script lock and false when another execution kept it for ten seconds;   *)
(* doPost does not look at the result and goes on either way. saveRecord   *)
(* reads the sheet, looks for the row of the record, and writes afterwards *)
(* at the place it found.                                                  *)
(***************************************************************************)
MaxRunning == 2

\* saveRecord: the sheet is created when missing
openSheet(ss, sheetName) ==
    IF ss[sheetName].exists THEN ss
    ELSE [ss EXCEPT ![sheetName] = [exists |-> TRUE, rows |-> <<>>]]

\* saveRecord: the row of the record in the data read from the sheet, 0 if none
rowOf(ss, sheetName, record) ==
    IF sheetName = "Banner"
    THEN findIndex(ss[sheetName].rows, LAMBDA r : r.key = record.key)
    ELSE findIndex(ss[sheetName].rows, LAMBDA r : r.id = record.id)

\* saveRecord: setValue / setValues at the row found, appendRow when none was
writeRow(ss, sheetName, record, rowIndex) ==
    IF sheetName = "Banner"
    THEN IF rowIndex > 0
         THEN [ss EXCEPT ![sheetName].rows[rowIndex].value = record.value]
         ELSE [ss EXCEPT ![sheetName].rows = Append(@, record)]
    ELSE IF rowIndex > 0
         THEN [ss EXCEPT ![sheetName].rows[rowIndex] = rowData(record)]
         ELSE [ss EXCEPT ![sheetName].rows = Append(@, rowData(record))]

\* An execution holds the script lock.
Locked == \E r \in running : r.held

\* A request arrives: tryLock takes the lock when it is free and gives up
\* after the timeout when it is not; saveRecord opens the sheet and reads it.
doPostBegin ==
    \E p \in BagToSet(outbox) :
        LET sheetName == KEY_MAP[p.key]
            opened == openSheet(sheets, sheetName)
            r == [p |-> p, held |-> ~Locked,
                  rowIndex |-> rowOf(opened, sheetName, p.data)]
        IN  /\ p.action = "save_record"
            /\ Cardinality(running) < MaxRunning
            /\ r \notin running
            /\ sheets' = opened
            /\ running' = running \cup {r}
            /\ outbox' = outbox (-) SetToBag({p})
            /\ UNCHANGED <<local, url, now, phase, response, ret, calls>>

\* An execution writes its row and returns, releasing the lock if it has it.
doPostEnd ==
    \E r \in running :
        /\ sheets' = writeRow(sheets, KEY_MAP[r.p.key], r.p.data, r.rowIndex)
        /\ running' = running \ {r}
        /\ UNCHANGED <<local, url, now, phase, response, outbox, ret, calls>>

(***************************************************************************)
(* BMS_Cloud.syncDown, started by the constructor's timer.                 *)
(***************************************************************************)
NoData == [key \in DOMAIN KEY_MAP |-> Missing]
NoResponse == [kind |-> "none", data |-> NoData]

valid_AnyArray(val) == val.t = "array"

\* val && Array.isArray(val) && val.length > 0
valid(val) == val.t = "array" /\ Len(val.arr) > 0

saveIfValid_KeepLonger(stored, val) ==
    IF valid(val) /\ Len(val.arr) >= Len(stored) THEN val.arr ELSE stored

\* saveIfValid(key, val): the stored table afterwards
saveIfValid(stored, val) == IF valid(val) THEN val.arr ELSE stored

\* if (data.k) localStorage.setItem(k, data.k): the stored string afterwards
saveIfTruthy(stored, val) ==
    IF val.t = "array" THEN (IF val.arr = <<>> THEN "" ELSE "[object Object]")
    ELSE IF val.t = "string" /\ val.str # "" THEN val.str
    ELSE stored

\* if (data.k)
truthy(val) == val.t = "array" \/ (val.t = "string" /\ val.str # "")

\* The setItem calls of a successful syncDown, in program order.
syncWrites(data) ==
    LET table(key) == IF valid(data[key]) THEN <<Stored(key)>> ELSE <<>>
        setting(key) == IF truthy(data[key]) THEN <<Stored(key)>> ELSE <<>>
    IN  table(USERS) \o table(INVENTORY) \o table(SALES) \o table(PURCHASES)
        \o table(EXPENSES) \o setting(BANNER) \o setting(VERTICAL_BANNER)

\* The timer fires and calls syncDown: it returns at once when no URL is
\* configured and issues fetch(this.url) otherwise.
PullStart ==
    /\ phase = "SyncScheduled"
    /\ IF url = ""
       THEN /\ phase' = "SyncFailed"
            /\ ret' = Ret("syncDown", FALSE, "No Cloud URL configured", <<>>)
            /\ calls' = <<>>
       ELSE /\ phase' = "SyncPending"
            /\ UNCHANGED <<ret, calls>>
    /\ UNCHANGED <<local, url, now, response, outbox, sheets, running>>

\* The gateway serves the GET.
PullServe ==
    /\ phase = "SyncPending"
    /\ response.kind = "none"
    /\ response' = doGet(sheets)
    /\ UNCHANGED <<local, url, now, phase, outbox, sheets, running, ret, calls>>

\* The gateway answers {result: 'error'}.
PullError ==
    /\ phase = "SyncPending"
    /\ response.kind = "none"
    /\ response' = [kind |-> "error", data |-> NoData]
    /\ UNCHANGED <<local, url, now, phase, outbox, sheets, running, ret, calls>>

\* The body of syncDown after await res.json().  A body of kind "nodata"
\* says result 'success' and carries no data object: reading data.ims_users
\* throws and the catch branch returns.
PullApply ==
    /\ phase = "SyncPending"
    /\ response.kind # "none"
    /\ IF response.kind = "success"
       THEN /\ users' = saveIfValid(users, response.data[USERS])
            /\ inventory' = saveIfValid(inventory, response.data[INVENTORY])
            /\ sales' = saveIfValid(sales, response.data[SALES])
            /\ purchases' = saveIfValid(purchases, response.data[PURCHASES])
            /\ expenses' = saveIfValid(expenses, response.data[EXPENSES])
            /\ banner' = saveIfTruthy(banner, response.data[BANNER])
            /\ verticalBanner' = saveIfTruthy(verticalBanner, response.data[VERTICAL_BANNER])
            /\ phase' = "SyncApplied"
            /\ ret' = Ret("syncDown", TRUE, "Data synced from Cloud", <<>>)
            /\ calls' = syncWrites(response.data)
       ELSE /\ phase' = "SyncFailed"
            /\ ret' = IF response.kind = "nodata"
                      THEN Ret("syncDown", FALSE, "Network/Sync Error", <<>>)
                      ELSE Ret("syncDown", FALSE, "Cloud Error", <<>>)
            /\ calls' = <<>>
            /\ UNCHANGED <<tables, settings>>
    /\ UNCHANGED <<currentUser, url, now, response, outbox, sheets, running>>

PullFail_WipesUsers ==
    /\ phase = "SyncPending"
    /\ phase' = "SyncFailed"
    /\ users' = <<>>
    /\ ret' = Ret("syncDown", FALSE, "Network/Sync Error", <<>>)
    /\ calls' = <<Stored(USERS)>>
    /\ UNCHANGED <<inventory, sales, purchases, expenses, currentUser, settings,
                   url, now, response, outbox, sheets, running>>

PullFail_Reschedules ==
    /\ phase = "SyncPending"
    /\ phase' = "SyncScheduled"
    /\ ret' = Ret("syncDown", FALSE, "Network/Sync Error", <<>>)
    /\ calls' = <<Timer>>
    /\ UNCHANGED <<local, url, now, response, outbox, sheets, running>>

\* fetch rejects, or the body is not JSON: the catch branch of syncDown.
PullFail ==
    /\ phase = "SyncPending"
    /\ phase' = "SyncFailed"
    /\ ret' = Ret("syncDown", FALSE, "Network/Sync Error", <<>>)
    /\ calls' = <<>>
    /\ UNCHANGED <<local, url, now, response, outbox, sheets, running>>

\* A page load: new BMS_Core() over the localStorage the last page left.
Load ==
    /\ users' = initStorage(users)
    /\ banner' = IF banner \in {null, ""} THEN "" ELSE banner
    /\ phase' = IF url # "" THEN "SyncScheduled" ELSE "LocalReady"
    /\ response' = NoResponse
    /\ ret' = Ret("constructor", TRUE, "", <<>>)
    /\ calls' = constructorCalls(url)
    /\ UNCHANGED <<inventory, sales, purchases, expenses, currentUser,
                   verticalBanner, url, now, outbox, sheets, running>>


(***************************************************************************)
(* The whole program: a browser with empty localStorage has loaded the     *)
(* page once; any operation may be called in any order.                    *)
(***************************************************************************)
NoSheets == [n \in SheetNames |-> NoSheet]

Init ==
    /\ users = <<INITIAL_ADMIN>>
    /\ inventory = <<>>
    /\ sales = <<>>
    /\ purchases = <<>>
    /\ expenses = <<>>
    /\ currentUser = <<>>
    /\ banner = ""
    /\ verticalBanner = null
    /\ url = ""
    /\ now = 0
    /\ phase = "LocalReady"
    /\ response = NoResponse
    /\ outbox = EmptyBag
    /\ sheets = NoSheets
    /\ running = {}
    /\ ret = Ret("constructor", TRUE, "", <<>>)
    /\ calls = constructorCalls(url)

UserIds == {users[i].id : i \in 1..Len(users)} \cup {"user_x"}
LoginNames == CompanyNames \cup {"Admin"}
LoginPasswords == Passwords \cup {"admin123"}

Auth ==
    \/ \E n \in LoginNames, c \in ContactNames \cup {"Admin"}, p \in LoginPasswords :
          login(n, c, p)
    \/ logout

Tenants ==
    \/ \E n \in CompanyNames, c \in ContactNames, p \in Passwords : register(n, c, p)
    \/ \E id \in UserIds, p \in Passwords : resetPassword(id, p)
    \/ \E id \in UserIds, st \in Statuses \cup {"Delete"} : updateUserStatus(id, st)

Reads ==
    \/ callGetInventory
    \/ callGetSales
    \/ callGetPurchases
    \/ callGetExpenses

Stock ==
    \/ \E v \in Vendors, c \in Categories, b \in Brands, m \in Models,
          q \in Quantities, k \in Prices, t \in PaymentTypes :
          addStock(v, c, b, m, Num(q), Num(k), t)
    \/ \E n \in ItemNames, q \in Quantities, k \in Prices :
          processSale(n, Num(q), Num(k))

Pull ==
    \/ PullStart
    \/ PullServe
    \/ PullError
    \/ PullApply
    \/ PullFail

Next ==
    \/ Load
    \/ Tick
    \/ \E u \in {"", CloudUrl} : setUrl(u)
    \/ Auth
    \/ Tenants
    \/ Reads
    \/ Stock
    \/ \E a \in Prices : addExpense("Rent", Num(a), 0)
    \/ \E u \in {"", "h.png"} : setBanner(u)
    \/ \E u \in {"", "v.png"} : setVerticalBanner(u)
    \/ Deliver
    \/ Lose
    \/ Pull

Spec == Init /\ [][Next]_vars

(***************************************************************************)
(* The owned reads as functions of the store: every stored table and every *)
(* stored active tenant within the bounds, well formed or not, and the     *)
(* four reads called on it.                                                *)
(***************************************************************************)
Owners == {"Acme", "ACME", "Admin", undefined, null}

OwnerLists == UNION {[1..n -> Owners] : n \in 0..FilterLen}

Tenant(name, role) ==
    [id |-> "user_0", companyName |-> name, username |-> name,
     contactPerson |-> "Owner", password |-> "pw1", role |-> role,
     status |-> "Approved"]

StoredSessions ==
    {<<>>, <<INITIAL_ADMIN>>} \cup {<<Tenant(n, USER)>> : n \in Owners}

InventoryOf(os) ==
    [i \in 1..Len(os) |->
        [id |-> "inv_" \o ToString(i), owner |-> os[i], itemName |-> "Widget A",
         quantity |-> Num(i), avgCost |-> Num(5)]]

SalesOf(os) ==
    [i \in 1..Len(os) |->
        [id |-> "sale_" \o ToString(i), owner |-> os[i], date |-> 0,
         itemName |-> "Widget A", quantity |-> Num(1), price |-> Num(5),
         total |-> Num(5)]]

PurchasesOf(os) ==
    [i \in 1..Len(os) |->
        [id |-> "pur_" \o ToString(i), owner |-> os[i], date |-> 0,
         vendor |-> "Vendor1", category |-> "Parts", brand |-> "Widget",
         model |-> "A", itemName |-> "Widget A", quantity |-> Num(i),
         cost |-> Num(5), paymentType |-> "Cash"]]

ExpensesOf(os) ==
    [i \in 1..Len(os) |->
        [id |-> "exp_" \o ToString(i), owner |-> os[i], name |-> "Rent",
         amount |-> Num(5), date |-> 0]]

InitFilter ==
    /\ users = <<INITIAL_ADMIN>>
    /\ \E os \in OwnerLists :
          /\ inventory = InventoryOf(os)
          /\ sales = SalesOf(os)
          /\ purchases = PurchasesOf(os)
          /\ expenses = ExpensesOf(os)
    /\ currentUser \in StoredSessions
    /\ banner = ""
    /\ verticalBanner = null
    /\ url = ""
    /\ now = 0
    /\ phase = "LocalReady"
    /\ response = NoResponse
    /\ outbox = EmptyBag
    /\ sheets = NoSheets
    /\ running = {}
    /\ ret = Ret("constructor", TRUE, "", <<>>)
    /\ calls = constructorCalls(url)

NextFilter ==
    \/ callGetInventory
    \/ callGetSales
    \/ callGetPurchases
    \/ callGetExpenses

SpecFilter == InitFilter /\ [][NextFilter]_vars

ReadOps == {"getInventory", "getSales", "getPurchases", "getExpenses"}

\* The stored table a read is about.
TableOf(op) ==
    CASE op = "getInventory" -> inventory
      [] op = "getSales" -> sales
      [] op = "getPurchases" -> purchases
      [] op = "getExpenses" -> expenses

\* The value a read returns in the current state.
ResultOf(op) ==
    CASE op = "getInventory" -> getInventory
      [] op = "getSales" -> getSales
      [] op = "getPurchases" -> getPurchases
      [] op = "getExpenses" -> getExpenses

\* res holds, in the order of tbl, exactly the records of tbl owned by name.
ExactlyOwned(res, tbl, name) ==
    /\ \A k \in 1..Len(res) : res[k].owner = name
    /\ Len(res) = Cardinality({i \in 1..Len(tbl) : tbl[i].owner = name})
    /\ \E at \in [1..Len(res) -> 1..Len(tbl)] :
          /\ \A k \in 1..Len(res) : res[k] = tbl[at[k]]
          /\ \A k \in 1..Len(res), l \in 1..Len(res) : k < l => at[k] < at[l]

\* C1: for every active tenant T and every owned table, getInventory,
\* getSales, getPurchases and getExpenses return exactly the records of the
\* table whose owner equals T.username, compared case-sensitively, and the
\* empty sequence when no tenant is active or the active tenant is the Admin.
C1_OwnedReads ==
    /\ \A op \in ReadOps :
          IF currentUser = <<>> \/ currentUser[1].role = ADMIN
          THEN ResultOf(op) = <<>>
          ELSE ExactlyOwned(ResultOf(op), TableOf(op), currentUser[1].username)
    /\ ret.op \in ReadOps => ret.rows = ResultOf(ret.op)

\* A tenant has read a table that also holds records of another owner whose
\* name differs only in case, and got its own records only.
C1_Witness ==
    /\ ret.op = "getSales"
    /\ currentUser # <<>>
    /\ currentUser[1].username = "Acme"
    /\ Len(sales) = 2
    /\ sales[1].owner = "ACME"
    /\ sales[2].owner = "Acme"
    /\ ret.rows = <<sales[2]>>

\* C2: in every state of the store, malformed ones included, an owned read
\* returns no row whose owner is absent or malformed, and only rows whose
\* owner is the username of the active tenant.
C2_DefaultDeny ==
    ret.op \in ReadOps =>
        \A k \in 1..Len(ret.rows) :
            /\ ret.rows[k].owner \notin {undefined, null}
            /\ ret.rows[k].owner = currentUser[1].username

(***************************************************************************)
(* Startup reconciliation on its own: a pull is pending over local tables  *)
(* of every size within the bounds, and the endpoint answers with any body *)
(* within the bounds, whatever serves it.                                  *)
(***************************************************************************)
Names(owner, n) == [i \in 1..n |-> owner]

LocalUsers(n) == <<INITIAL_ADMIN>> \o [i \in 1..n |-> Tenant("L" \o ToString(i), USER)]
RemoteUsers(n) == [i \in 1..n |-> Tenant("R" \o ToString(i), USER)]

\* The values a body may carry for a table, built by Of for 1..SyncRows rows.
Payloads(Of(_)) ==
    {Missing, Text("oops"), Arr(<<>>)} \cup {Arr(Of(n)) : n \in 1..SyncRows}

Bodies ==
    {[kind |-> "success",
      data |-> [ims_users |-> u, ims_inventory |-> i, ims_sales |-> s,
                ims_purchases |-> p, ims_expenses |-> e,
                ims_banner |-> Missing, ims_vertical_banner |-> Missing]] :
        u \in Payloads(RemoteUsers),
        i \in Payloads(LAMBDA n : InventoryOf(Names("Bolt", n))),
        s \in Payloads(LAMBDA n : SalesOf(Names("Bolt", n))),
        p \in Payloads(LAMBDA n : PurchasesOf(Names("Bolt", n))),
        e \in Payloads(LAMBDA n : ExpensesOf(Names("Bolt", n)))}
    \cup {[kind |-> "error", data |-> NoData], [kind |-> "nodata", data |-> NoData]}

InitSync ==
    /\ \E n \in 0..SyncRows : users = LocalUsers(n)
    /\ \E n \in 0..SyncRows :
          /\ inventory = InventoryOf(Names("Acme", n))
          /\ sales = SalesOf(Names("Acme", n))
          /\ purchases = PurchasesOf(Names("Acme", n))
          /\ expenses = ExpensesOf(Names("Acme", n))
    /\ currentUser = <<>>
    /\ banner = ""
    /\ verticalBanner = null
    /\ url = CloudUrl
    /\ now = 0
    /\ phase = "SyncPending"
    /\ response = NoResponse
    /\ outbox = EmptyBag
    /\ sheets = NoSheets
    /\ running = {}
    /\ ret = Ret("constructor", TRUE, "", <<>>)
    /\ calls = constructorCalls(url)

\* The endpoint answers the GET.
PullAnswer ==
    /\ phase = "SyncPending"
    /\ response.kind = "none"
    /\ response' \in Bodies
    /\ UNCHANGED <<local, url, now, phase, outbox, sheets, running, ret, calls>>

NextSync ==
    \/ PullAnswer
    \/ PullApply
    \/ PullFail

SpecSync == InitSync /\ [][NextSync]_vars

\* A step in which syncDown returns.
Reconciled == phase = "SyncPending" /\ phase' # "SyncPending"

\* The body carries a non-empty array under key.
CarriesRows(key) == response.data[key].t = "array" /\ response.data[key].arr # <<>>

\* C3: for each of users, inventory, sales, purchases and expenses, a local
\* table that is non-empty before a startup reconciliation is unchanged after
\* it when the payload for that table is an empty array, missing or not an
\* array.
C3_EmptyRemoteKeepsLocal ==
    [][Reconciled =>
        /\ (users # <<>> /\ ~CarriesRows(USERS)) => users' = users
        /\ (inventory # <<>> /\ ~CarriesRows(INVENTORY)) => inventory' = inventory
        /\ (sales # <<>> /\ ~CarriesRows(SALES)) => sales' = sales
        /\ (purchases # <<>> /\ ~CarriesRows(PURCHASES)) => purchases' = purchases
        /\ (expenses # <<>> /\ ~CarriesRows(EXPENSES)) => expenses' = expenses]_vars

\* A pull with an empty users array and a two-row inventory has been applied:
\* the local users are the ones stored before, the inventory is the remote one.
C3_Witness ==
    /\ phase = "SyncApplied"
    /\ response.data[USERS] = Arr(<<>>)
    /\ users = LocalUsers(1)
    /\ response.data[SALES] = Text("oops")
    /\ sales = SalesOf(Names("Acme", 1))
    /\ response.data[EXPENSES] = Missing
    /\ expenses = ExpensesOf(Names("Acme", 1))
    /\ inventory = InventoryOf(Names("Bolt", 2))

\* C4: when a successful pull carries a non-empty array for a table among
\* users, inventory, sales, purchases and expenses, the local table after
\* the reconciliation is that array, whatever the local table held and
\* whatever the body carries for the other tables.
C4_RemoteRowsReplaceLocal ==
    [][(Reconciled /\ ret'.op = "syncDown" /\ ret'.ok) =>
        /\ CarriesRows(USERS) => users' = response.data[USERS].arr
        /\ CarriesRows(INVENTORY) => inventory' = response.data[INVENTORY].arr
        /\ CarriesRows(SALES) => sales' = response.data[SALES].arr
        /\ CarriesRows(PURCHASES) => purchases' = response.data[PURCHASES].arr
        /\ CarriesRows(EXPENSES) => expenses' = response.data[EXPENSES].arr]_vars

\* A one-row remote purchases table has replaced a two-row local one while
\* the remote sales table was empty and the local sales stayed.
C4_Witness ==
    /\ phase = "SyncApplied"
    /\ response.data[PURCHASES] = Arr(PurchasesOf(Names("Bolt", 1)))
    /\ purchases = PurchasesOf(Names("Bolt", 1))
    /\ response.data[SALES] = Arr(<<>>)
    /\ sales = SalesOf(Names("Acme", 2))
    /\ response.data[USERS] = Arr(RemoteUsers(2))
    /\ users = RemoteUsers(2)

(***************************************************************************)
(* One tenant at work with the gateway configured: an approved tenant is   *)
(* logged in, the page has just loaded, the spreadsheet is still empty.    *)
(* The tenant buys and sells one item; requests reach the gateway or are   *)
(* lost; the page is reloaded and pulls what the spreadsheet holds.        *)
(***************************************************************************)
Acme == [Tenant("Acme", USER) EXCEPT !.id = "user_0"]

InitShop ==
    /\ users = <<INITIAL_ADMIN, Acme>>
    /\ inventory = <<>>
    /\ sales = <<>>
    /\ purchases = <<>>
    /\ expenses = <<>>
    /\ currentUser = <<Acme>>
    /\ banner = ""
    /\ verticalBanner = null
    /\ url = CloudUrl
    /\ now = 0
    /\ phase = "SyncScheduled"
    /\ response = NoResponse
    /\ outbox = EmptyBag
    /\ sheets = NoSheets
    /\ running = {}
    /\ ret = Ret("constructor", TRUE, "", <<>>)
    /\ calls = constructorCalls(url)

\* The clock has advanced since the last purchase and the last sale.
Fresh ==
    /\ \A i \in 1..Len(purchases) : purchases[i].date # now
    /\ \A i \in 1..Len(sales) : sales[i].date # now

\* Every request sent has reached the gateway.
Quiet == outbox = EmptyBag

NextShop ==
    \/ Fresh /\ Quiet /\ addStock("Vendor1", "Parts", "Widget", "A", Num(1), Num(5), "Cash")
    \/ Fresh /\ Quiet /\ processSale("Widget A", Num(1), Num(5))
    \/ ~Fresh /\ Tick
    \/ Deliver
    \/ Load
    \/ PullStart
    \/ PullServe
    \/ PullApply

SpecShop == InitShop /\ [][NextShop]_vars

\* The records of an inventory that belong to owner and carry the name.
Matching(all, owner, itemName) ==
    {i \in 1..Len(all) : all[i].owner = owner
                         /\ toLowerCase(all[i].itemName) = toLowerCase(itemName)}

\* C7: in every reachable state, after any sequence of addStock, processSale
\* and startup reconciliations, the quantity of every inventory item is an
\* integer greater than or equal to zero.
C7_QuantityNeverNegative ==
    \A i \in 1..Len(inventory) :
        inventory[i].quantity.t = "num" /\ inventory[i].quantity.n >= 0

\* addStock by the active tenant T of q units of brand model at cost c has
\* the effect C8 describes.
AddStockEffect(b, m, q, c) ==
    LET T == currentUser[1].username
        name == b \o " " \o m
        had == Matching(inventory, T, name)
        shown == owned(inventory', currentUser')
    IN  /\ IF had # {}
           THEN /\ Len(inventory') = Len(inventory)
                /\ \E i \in had :
                      /\ ToNumber(inventory'[i].quantity) = ToNumber(inventory[i].quantity) + q
                      /\ \E k \in 1..Len(shown) : shown[k] = inventory'[i]
                      /\ \A j \in 1..Len(inventory) : j # i => inventory'[j] = inventory[j]
           ELSE /\ Len(inventory') = Len(inventory) + 1
                /\ SubSeq(inventory', 1, Len(inventory)) = inventory
                /\ inventory'[Len(inventory')].owner = T
                /\ inventory'[Len(inventory')].quantity = Num(q)
                /\ inventory'[Len(inventory')].avgCost = Num(c)
                /\ shown # <<>>
                /\ shown[Len(shown)] = inventory'[Len(inventory')]
        /\ Len(purchases') = Len(purchases) + 1
        /\ SubSeq(purchases', 1, Len(purchases)) = purchases
        /\ purchases'[Len(purchases')].owner = T
        /\ \A j \in 1..Len(inventory) : inventory[j].owner # T => inventory'[j] = inventory[j]

\* C8: after addStock by tenant T for item (brand, model) with quantity q and
\* cost c, getInventory for T shows the item T already had under that name,
\* compared ignoring case, with its quantity increased by exactly q and no
\* new item, or else exactly one new item owned by T with quantity q and
\* avgCost c; one purchase record owned by T is appended and no item of
\* another tenant changes.
C8_AddStock ==
    [][\A v \in Vendors, g \in Categories, b \in Brands, m \in Models,
          q \in Quantities, c \in Prices, t \in PaymentTypes :
          (currentUser # <<>> /\ addStock(v, g, b, m, Num(q), Num(c), t))
              => AddStockEffect(b, m, q, c)]_vars

(***************************************************************************)
(* The first stock operation on a store: every inventory within the        *)
(* bounds (two tenants, names in either case, quantities as addStock,      *)
(* processSale and a pull leave them), every session, and one call of      *)
(* addStock or processSale on it.                                          *)
(***************************************************************************)
Bolt == [Tenant("Bolt", USER) EXCEPT !.id = "user_1"]

StoredQuantities == {Num(0), Num(1), Num(2), Str(""), Str("1")}

StockSpecs == [owner : {"Acme", "Bolt"}, itemName : ItemNames, quantity : StoredQuantities]

StockLists == UNION {[1..n -> StockSpecs] : n \in 0..StockItems}

StockOf(l) ==
    [i \in 1..Len(l) |->
        [id |-> "inv_s" \o ToString(i), owner |-> l[i].owner,
         itemName |-> l[i].itemName, quantity |-> l[i].quantity, avgCost |-> Num(5)]]

InitStock ==
    /\ users = <<INITIAL_ADMIN, Acme, Bolt>>
    /\ \E l \in StockLists : inventory = StockOf(l)
    /\ sales = <<>>
    /\ purchases = <<>>
    /\ expenses = <<>>
    /\ currentUser \in {<<>>, <<Acme>>, <<Bolt>>, <<INITIAL_ADMIN>>}
    /\ banner = ""
    /\ verticalBanner = null
    /\ url = CloudUrl
    /\ now = 1
    /\ phase = "SyncApplied"
    /\ response = NoResponse
    /\ outbox = EmptyBag
    /\ sheets = NoSheets
    /\ running = {}
    /\ ret = Ret("constructor", TRUE, "", <<>>)
    /\ calls = constructorCalls(url)

\* No purchase and no sale has been recorded yet.
FirstCall == purchases = <<>> /\ sales = <<>>

NextStock ==
    \/ /\ FirstCall
       /\ \E v \in Vendors, g \in Categories, b \in Brands, m \in Models,
             q \in Quantities, c \in Prices, t \in PaymentTypes :
             addStock(v, g, b, m, Num(q), Num(c), t)
    \/ /\ FirstCall
       /\ \E n \in ItemNames, q \in Quantities, k \in Prices :
             processSale(n, Num(q), Num(k))
    \/ callGetInventory

SpecStock == InitStock /\ [][NextStock]_vars

\* C5: processSale(itemName, quantity, price) called when the active tenant
\* has no item of that name (names compared ignoring case, as the lookup
\* does) or when quantity exceeds the item's current stock returns the
\* failure 'Insufficient Stock', leaves inventory and sales unchanged and
\* issues no push.
C5_InsufficientStock ==
    [][\A n \in ItemNames, q \in Quantities, k \in Prices :
          (/\ currentUser # <<>>
           /\ processSale(n, Num(q), Num(k))
           /\ \A i \in Matching(inventory, currentUser[1].username, n) :
                 ToNumber(inventory[i].quantity) < q)
          => /\ ret'.op = "processSale"
             /\ ~ret'.ok
             /\ ret'.msg = "Insufficient Stock"
             /\ inventory' = inventory
             /\ sales' = sales
             /\ outbox' = outbox]_vars

\* Acme holds one unit, a sale was refused, nothing was sold or sent.
C5_Witness ==
    /\ ret.op = "processSale"
    /\ ret.msg = "Insufficient Stock"
    /\ currentUser = <<Acme>>
    /\ Len(inventory) = 1
    /\ inventory[1].owner = "Acme"
    /\ inventory[1].quantity = Num(1)
    /\ sales = <<>>
    /\ outbox = EmptyBag

\* C6: a successful processSale(itemName, quantity, price) decrements the
\* quantity of the active tenant's matching inventory item by exactly the
\* sold quantity, changes no other inventory item, and appends exactly one
\* record to sales, owned by the active tenant, with that quantity, that
\* price and total = quantity * price.
C6_SaleEffect ==
    [][\A n \in ItemNames, q \in Quantities, k \in Prices :
          (currentUser # <<>> /\ processSale(n, Num(q), Num(k)) /\ ret'.ok)
          => /\ Len(inventory') = Len(inventory)
             /\ \E i \in Matching(inventory, currentUser[1].username, n) :
                   /\ inventory'[i].quantity = Num(ToNumber(inventory[i].quantity) - q)
                   /\ inventory' = [inventory EXCEPT ![i].quantity = inventory'[i].quantity]
             /\ Len(sales') = Len(sales) + 1
             /\ SubSeq(sales', 1, Len(sales)) = sales
             /\ sales'[Len(sales')].owner = currentUser[1].username
             /\ sales'[Len(sales')].itemName = n
             /\ sales'[Len(sales')].quantity = Num(q)
             /\ sales'[Len(sales')].price = Num(k)
             /\ sales'[Len(sales')].total = Num(q * k)]_vars

\* Acme sold its two units of an item stored under another spelling; the
\* item of Bolt next to it is as it was.
C6_Witness ==
    /\ ret.op = "processSale"
    /\ ret.ok
    /\ currentUser = <<Acme>>
    /\ Len(inventory) = 2
    /\ inventory[1].owner = "Bolt"
    /\ inventory[1].quantity = Num(2)
    /\ inventory[2].owner = "Acme"
    /\ inventory[2].itemName = "Widget A"
    /\ inventory[2].quantity = Num(0)
    /\ Len(sales) = 1
    /\ sales[1].owner = "Acme"
    /\ sales[1].itemName = "widget a"
    /\ sales[1].quantity = Num(2)
    /\ sales[1].total = Num(10)

(***************************************************************************)
(* Tenant lifecycle against the cloud: a browser with empty localStorage   *)
(* and the cloud URL set has loaded the page; companies register, the      *)
(* administrator approves, deletes and resets passwords, pushes reach the  *)
(* gateway, and the page is reloaded and reconciled.                       *)
(***************************************************************************)
TenantNames == {"Acme", "ACME", "admin"}

InitTenants ==
    /\ users = <<INITIAL_ADMIN>>
    /\ inventory = <<>>
    /\ sales = <<>>
    /\ purchases = <<>>
    /\ expenses = <<>>
    /\ currentUser = <<>>
    /\ banner = ""
    /\ verticalBanner = null
    /\ url = CloudUrl
    /\ now = 0
    /\ phase = "SyncScheduled"
    /\ response = NoResponse
    /\ outbox = EmptyBag
    /\ sheets = NoSheets
    /\ running = {}
    /\ ret = Ret("constructor", TRUE, "", <<>>)
    /\ calls = constructorCalls(url)

\* No tenant has been registered in the current millisecond.
FreshId == \A i \in 1..Len(users) : users[i].id # "user_" \o ToString(now)

\* The administrator and the companies act before the reconciliation of
\* the current page load has started and while no push is in flight.
Idle == phase = "SyncScheduled" /\ outbox = EmptyBag

NextTenants ==
    \/ FreshId /\ Idle /\ \E n \in TenantNames : register(n, "Owner", "pw1")
    \/ Idle /\ \E id \in UserIds, st \in {"Approved", "Delete"} : updateUserStatus(id, st)
    \/ Idle /\ \E id \in UserIds : resetPassword(id, "pw1")
    \/ ~FreshId /\ now < MaxRegTime /\ Tick
    \/ Deliver
    \/ phase = "SyncApplied" /\ Load
    \/ PullStart
    \/ PullServe
    \/ PullApply

SpecTenants == InitTenants /\ [][NextTenants]_vars

\* C9: register called with a company name that equals, ignoring letter
\* case, the username of a tenant already in the users table (the
\* privileged tenant included) returns a failure, leaves the users table
\* unchanged and issues no push.
C9_DuplicateRejected ==
    [][\A n \in TenantNames, c \in ContactNames, p \in Passwords :
          (/\ register(n, c, p)
           /\ \E i \in 1..Len(users) : toLowerCase(users[i].username) = toLowerCase(n))
          => /\ ret'.op = "register"
             /\ ~ret'.ok
             /\ users' = users
             /\ outbox' = outbox]_vars

\* A registration was refused while the table holds the privileged tenant
\* alone; nothing was stored or sent.
C9_Witness ==
    /\ ret.op = "register"
    /\ ~ret.ok
    /\ ret.msg = "Company Name already registered"
    /\ users = <<INITIAL_ADMIN>>
    /\ outbox = EmptyBag
    /\ sheets = NoSheets
    /\ running = {}

\* C10: in every reachable state no two tenants in the users table have
\* usernames that are equal ignoring letter case.
C10_UniqueUsernames ==
    \A i, j \in 1..Len(users) :
        i # j => toLowerCase(users[i].username) # toLowerCase(users[j].username)

\* C11: in every reachable state the users table holds exactly one tenant
\* of the Admin role, and that tenant has the reserved id admin_001.
C11_OnePrivileged ==
    LET admins == {i \in 1..Len(users) : users[i].role = ADMIN}
    IN  /\ Cardinality(admins) = 1
        /\ \A i \in admins : users[i].id = "admin_001"

\* C12: in every reachable state every record of inventory, sales,
\* purchases and expenses has a non-empty owner that is the username of a
\* tenant of the users table, and none is owned by the privileged tenant.
C12_OwnersAreTenants ==
    LET Owned(tbl) ==
            \A i \in 1..Len(tbl) :
                /\ tbl[i].owner \notin {"", undefined, null}
                /\ \E j \in 1..Len(users) :
                      /\ users[j].username = tbl[i].owner
                      /\ users[j].role # ADMIN
    IN  Owned(inventory) /\ Owned(sales) /\ Owned(purchases) /\ Owned(expenses)

(***************************************************************************)
(* One page after another in the life of a shop: the operator sets or      *)
(* clears the cloud URL, the tenant buys, sells and sets the banner, the   *)
(* page is reloaded, and the startup pull is served, refused, lost or      *)
(* never answered.  No push reaches the gateway: each one is lost, and the *)
(* tenant acts again once the requests of the last operation are gone.     *)
(***************************************************************************)
InitLife ==
    /\ users = <<INITIAL_ADMIN, Acme>>
    /\ inventory = <<>>
    /\ sales = <<>>
    /\ purchases = <<>>
    /\ expenses = <<>>
    /\ currentUser = <<Acme>>
    /\ banner = ""
    /\ verticalBanner = null
    /\ url \in {"", CloudUrl}
    /\ now = 0
    /\ phase = IF url = "" THEN "LocalReady" ELSE "SyncScheduled"
    /\ response = NoResponse
    /\ outbox = EmptyBag
    /\ sheets = NoSheets
    /\ running = {}
    /\ ret = Ret("constructor", TRUE, "", <<>>)
    /\ calls = constructorCalls(url)

NextLife ==
    \/ \E u \in {"", CloudUrl} : setUrl(u)
    \/ Fresh /\ Quiet /\ addStock("Vendor1", "Parts", "Widget", "A", Num(1), Num(5), "Cash")
    \/ Fresh /\ Quiet /\ processSale("Widget A", Num(1), Num(5))
    \/ Quiet /\ setBanner("b1")
    \/ callGetInventory
    \/ ~Fresh /\ Tick
    \/ Lose
    \/ Load
    \/ PullStart
    \/ PullServe
    \/ PullError
    \/ PullApply
    \/ PullFail

SpecLife == InitLife /\ [][NextLife]_vars

\* C13: while no endpoint is configured (empty URL) a call of syncDown
\* returns a failure without issuing a request and without changing a
\* local table or setting, a page load schedules no pull, and no operation
\* adds a request to those in flight.
C13_NoEndpoint ==
    [][url = "" =>
        /\ outbox' \sqsubseteq outbox
        /\ phase' = "SyncPending" => phase = "SyncPending"
        /\ (phase = "SyncScheduled" /\ phase' \notin {"SyncScheduled", "LocalReady"})
              => /\ ret' = Ret("syncDown", FALSE, "No Cloud URL configured", <<>>)
                 /\ calls' = <<>>
                 /\ local' = local
                 /\ response' = response
        /\ ret'.op = "constructor"
              => /\ phase' = "LocalReady"
                 /\ \A i \in 1..Len(calls') : calls'[i] # Timer]_vars

\* The URL was cleared before the timer fired: syncDown has returned its
\* failure; the banner set earlier is still stored and nothing is in flight.
C13_Witness ==
    /\ url = ""
    /\ phase = "SyncFailed"
    /\ ret = Ret("syncDown", FALSE, "No Cloud URL configured", <<>>)
    /\ banner = "b1"
    /\ outbox = EmptyBag
    /\ response = NoResponse

\* C14: when a startup pull fails (the request is lost, the body does not
\* parse or has no data object, or the response says 'error'), every local
\* table and every local setting is after the pull what it was before it,
\* and no write to the store was made.
C14_FailedPullWritesNothing ==
    [][(Reconciled /\ ~ret'.ok) =>
        /\ phase' = "SyncFailed"
        /\ tables' = tables
        /\ settings' = settings
        /\ currentUser' = currentUser
        /\ calls' = <<>>]_vars

\* A body that says success and carries no data was received while the
\* store held two local tenants and two rows in each table; the pull has
\* failed and the store still holds them.
C14_Witness ==
    /\ phase = "SyncFailed"
    /\ response.kind = "nodata"
    /\ ret = Ret("syncDown", FALSE, "Network/Sync Error", <<>>)
    /\ users = LocalUsers(2)
    /\ inventory = InventoryOf(Names("Acme", 2))
    /\ expenses = ExpensesOf(Names("Acme", 2))

(***************************************************************************)
(* The login form: every users table within the bounds (names in either    *)
(* case, every status) and any sequence of logins and logouts on it, with  *)
(* right and wrong inputs, padded with spaces or typed in another case.    *)
(***************************************************************************)
Accounts == [name : {"Acme", "ACME", "Bolt"}, status : Statuses]

AccountLists == UNION {[1..n -> Accounts] : n \in 0..LoginUsers}

UsersOf(l) ==
    <<INITIAL_ADMIN>> \o
    [i \in 1..Len(l) |->
        [Tenant(l[i].name, USER) EXCEPT !.id = "user_" \o ToString(i),
                                        !.status = l[i].status]]

TypedNames == {" Acme ", "ACME", "Bolt", "Admin", "Nobody"}
TypedContacts == {"owner", "Other"}
TypedPasswords == {" pw1", "pw2"}

InitLogin ==
    /\ \E l \in AccountLists : users = UsersOf(l)
    /\ inventory = <<>>
    /\ sales = <<>>
    /\ purchases = <<>>
    /\ expenses = <<>>
    /\ currentUser = <<>>
    /\ banner = ""
    /\ verticalBanner = null
    /\ url = ""
    /\ now = 0
    /\ phase = "LocalReady"
    /\ response = NoResponse
    /\ outbox = EmptyBag
    /\ sheets = NoSheets
    /\ running = {}
    /\ ret = Ret("constructor", TRUE, "", <<>>)
    /\ calls = constructorCalls(url)

NextLogin ==
    \/ \E n \in TypedNames, c \in TypedContacts, p \in TypedPasswords : login(n, c, p)
    \/ logout

SpecLogin == InitLogin /\ [][NextLogin]_vars

\* The tenant u is approved and the typed company name (ignoring case),
\* contact name (ignoring case) and password, spaces around them removed,
\* are its own.
Admits(u, n, c, p) ==
    /\ toLowerCase(u.username) = toLowerCase(trim(n))
    /\ toLowerCase(u.contactPerson) = toLowerCase(trim(c))
    /\ u.password = trim(p)
    /\ u.status = "Approved"

\* C15: a login with an unknown company name, a wrong contact name, a wrong
\* password or the credentials of a tenant that is not Approved returns a
\* failure and leaves the stored active tenant unchanged; a login that
\* succeeds or changes the active tenant was admitted by an Approved tenant
\* of the table, which is then the active tenant.
C15_LoginGuards ==
    [][\A n \in TypedNames, c \in TypedContacts, p \in TypedPasswords :
          login(n, c, p) =>
             /\ (~\E i \in 1..Len(users) : Admits(users[i], n, c, p))
                   => (~ret'.ok /\ currentUser' = currentUser)
             /\ (ret'.ok \/ currentUser' # currentUser)
                   => \E i \in 1..Len(users) :
                         /\ Admits(users[i], n, c, p)
                         /\ currentUser' = <<users[i]>>]_vars

\* Bolt is logged in; a login with the right credentials of Acme, whose
\* account is still Pending, was refused and Bolt is still the active tenant.
C15_Witness ==
    /\ ret = Ret("login", FALSE, "Account not approved yet", <<>>)
    /\ Len(users) = 3
    /\ users[2].username = "Acme"
    /\ users[2].status = "Pending"
    /\ users[3].username = "Bolt"
    /\ currentUser = <<users[3]>>

\* C16: in the operation last run, every call of pushRecord for a table key
\* comes after a write of that table to the store (setItem of the same
\* key) made by the same operation.
C16_PushAfterStore ==
    \A j \in 1..Len(calls) :
        calls[j].e = "pushRecord"
            => \E i \in 1..(j - 1) : calls[i] = Stored(calls[j].key)

\* The number of calls of kind e among cs.
Count(cs, e) == Cardinality({i \in 1..Len(cs) : cs[i].e = e})

\* C17: a push that fails or is lost changes nothing in the local store and
\* nothing in what the operation returned, and is not sent again; an
\* operation sends at most one request for each table write it made, and
\* only operations send requests.
C17_LostPushIsAbsorbed ==
    [][/\ (outbox' # outbox /\ outbox' \sqsubseteq outbox /\ sheets' = sheets)
            => (local' = local /\ ret' = ret /\ calls' = calls)
       /\ BagCardinality(outbox') > BagCardinality(outbox)
            => /\ ret'.ok
               /\ BagCardinality(outbox') - BagCardinality(outbox)
                     <= Count(calls', "pushRecord")
               /\ Count(calls', "pushRecord") <= Count(calls', "setItem")]_vars

\* A purchase was made with the URL set and both of its requests were
\* lost: the call returned success, the purchase and the item are stored,
\* the spreadsheet never saw them.
C17_Witness ==
    /\ url = CloudUrl
    /\ ret.op = "addStock"
    /\ ret.ok
    /\ Len(purchases) = 1
    /\ Len(inventory) = 1
    /\ getInventory = inventory
    /\ outbox = EmptyBag
    /\ sheets = NoSheets
    /\ running = {}

\* The store and the requests in flight leave room, within the bounds of
\* the model, for one more purchase.
RoomToBuy ==
    /\ Len(purchases) < MaxPurchases
    /\ Len(inventory) < MaxInventory
    /\ \A i \in 1..Len(inventory) : inventory[i].quantity.n < MaxQty
    /\ Room(2)

\* C18: the page moves from the end of initialization (LocalReady, with
\* the pull scheduled when a URL is set) to SyncPending and from there to
\* exactly one of SyncApplied and SyncFailed; a pull becomes pending only
\* from the scheduled state the constructor leaves; and in every one of
\* these states, the pull pending or over or never answered, reads and
\* writes can be called.
C18_SyncNeverBlocks ==
    /\ [][phase' # phase =>
            \/ phase = "SyncScheduled" /\ phase' \in {"SyncPending", "SyncFailed"}
            \/ phase = "SyncPending" /\ phase' \in {"SyncApplied", "SyncFailed"}
            \/ ret'.op = "constructor" /\ phase' \in {"LocalReady", "SyncScheduled"}]_vars
    /\ [](phase \in {"LocalReady", "SyncScheduled", "SyncPending", "SyncApplied", "SyncFailed"})
    /\ [](ENABLED callGetInventory)
    /\ [](ENABLED setBanner("b1") \/ ~Room(1))
    /\ [](ENABLED processSale("Widget A", Num(1), Num(5)) \/ ~Room(2) \/ Len(sales) = MaxSales)
    /\ [](ENABLED addStock("Vendor1", "Parts", "Widget", "A", Num(1), Num(5), "Cash")
          \/ ~RoomToBuy)

\* The pull was issued and has not been answered; the tenant has read the
\* inventory meanwhile.
C18_Witness ==
    /\ phase = "SyncPending"
    /\ response = NoResponse
    /\ ret.op = "getInventory"
    /\ Len(ret.rows) = 1

\* The timer set by the constructor fires.
FairLife == SpecLife /\ WF_vars(PullStart)

\* C19: a page load with a URL configured sets the timer exactly once,
\* after initStorage has written the users table; the pull is issued from
\* that scheduled state only, and is issued; and no operation and no
\* outcome of the pull schedules or issues another one before the next
\* page load.
C19_OnePullPerLoad ==
    /\ [](ret.op = "constructor"
            => /\ calls[1] = Stored(USERS)
               /\ Count(calls, "setTimeout") = (IF phase = "LocalReady" THEN 0 ELSE 1))
    /\ [](ret.op # "constructor" => Count(calls, "setTimeout") = 0)
    /\ [][(phase' = "SyncPending" /\ phase # "SyncPending") => phase = "SyncScheduled"]_vars
    /\ [][(phase' = "SyncScheduled" /\ phase # "SyncScheduled")
            => (ret'.op = "constructor" /\ url # "")]_vars
    /\ [][(phase \in {"SyncPending", "SyncApplied", "SyncFailed"} /\ ret'.op # "constructor")
            => phase' \in {phase, "SyncApplied", "SyncFailed"}]_vars
    /\ (phase = "SyncScheduled" ~> phase # "SyncScheduled")

\* The pull of this page load has failed; the tenant has bought since, and
\* no second pull is scheduled or pending.
C19_Witness ==
    /\ phase = "SyncFailed"
    /\ url = CloudUrl
    /\ ret.op = "addStock"
    /\ ret.ok
    /\ response.kind = "error"

\* The remote carries no value for a setting: the key is missing, the
\* value is the empty string getAllData returns when the Banner sheet has
\* no row for the key, or it is the empty array getAllData returns when
\* the Banner sheet does not exist.
NoValue(v) == v = Missing \/ v = Text("") \/ v = Arr(<<>>)

\* C20: on a successful pull each banner setting becomes the remote value
\* when that value is a non-empty string and keeps its local value when
\* the remote carries no value for it.
C20_BannerFromRemote ==
    [][(Reconciled /\ ret'.op = "syncDown" /\ ret'.ok) =>
        /\ (response.data[BANNER].t = "string" /\ response.data[BANNER].str # "")
              => banner' = response.data[BANNER].str
        /\ NoValue(response.data[BANNER]) => banner' = banner
        /\ (response.data[VERTICAL_BANNER].t = "string"
            /\ response.data[VERTICAL_BANNER].str # "")
              => verticalBanner' = response.data[VERTICAL_BANNER].str
        /\ NoValue(response.data[VERTICAL_BANNER]) => verticalBanner' = verticalBanner]_vars

\* Every record of the table before is in the table after, field for field.
Kept(before, after) ==
    \A i \in 1..Len(before) : \E j \in 1..Len(after) : after[j] = before[i]

\* Every id of the table before is an id of the table after.
KeptIds(before, after) ==
    \A i \in 1..Len(before) : \E j \in 1..Len(after) : after[j].id = before[i].id

\* C21: a record committed to the local store stays in its table in every
\* later state: no step removes an inventory item, and no step removes or
\* changes a sales, purchases or expenses record.
C21_RecordsPersist ==
    [][/\ KeptIds(inventory, inventory')
       /\ Kept(sales, sales')
       /\ Kept(purchases, purchases')
       /\ Kept(expenses, expenses')]_vars

(***************************************************************************)
(* The page is opened over whatever localStorage holds: a users table a    *)
(* pull or an earlier page left (with or without the Admin record, the     *)
(* Admin record possibly with a changed password, in any position), an     *)
(* inventory, banners that were set or never written. The constructor      *)
(* runs; the Admin password is reset from the open page and the page is    *)
(* loaded again.                                                           *)
(***************************************************************************)
BootUsers == 2

StoredTenants ==
    {INITIAL_ADMIN, [INITIAL_ADMIN EXCEPT !.password = "pw1"], Acme, Bolt}

StoredUsers ==
    {us \in UNION {[1..n -> StoredTenants] : n \in 0..BootUsers} :
        \A i, j \in 1..Len(us) : us[i].id = us[j].id => i = j}

InitBoot ==
    /\ users \in StoredUsers
    /\ inventory \in {<<>>, InventoryOf(<<"Acme">>)}
    /\ sales = <<>>
    /\ purchases = <<>>
    /\ expenses \in {<<>>, ExpensesOf(<<"Acme">>)}
    /\ currentUser = <<>>
    /\ banner \in {null, "", "b1"}
    /\ verticalBanner \in {null, "v1"}
    /\ url \in {"", CloudUrl}
    /\ now = 0
    /\ phase = "Closed"
    /\ response = NoResponse
    /\ outbox = EmptyBag
    /\ sheets = NoSheets
    /\ running = {}
    /\ ret = Ret("", TRUE, "", <<>>)
    /\ calls = <<>>

NextBoot ==
    \/ Load
    \/ phase # "Closed" /\ resetPassword("admin_001", "pw1")

SpecBoot == InitBoot /\ [][NextBoot]_vars

\* The records of a users table that are not the Admin record, in order.
Others(us) == SelectSeq(us, LAMBDA u : u.id # "admin_001")

\* C22: every cache initialization leaves the fixed Admin record first in
\* the users table and no other record of id admin_001, whatever copy was
\* stored; the other tenants are unchanged and in the same order; a second
\* initialization changes nothing.
C22_AdminReseeded ==
    [][ret'.op = "constructor" =>
        /\ Len(users') = 1 + Len(Others(users))
        /\ users'[1] = INITIAL_ADMIN
        /\ \A i \in 2..Len(users') : users'[i].id # "admin_001"
        /\ Others(users') = Others(users)
        /\ initStorage(users') = users']_vars

\* The Admin password was reset (the request is still in flight) and a
\* page load has put the fixed record back in front of the other tenants.
C22_Witness ==
    /\ ret.op = "constructor"
    /\ \E p \in BagToSet(outbox) :
          p.key = USERS /\ p.data.id = "admin_001" /\ p.data.password = "pw1"
    /\ users = <<INITIAL_ADMIN, Bolt, Acme>>

\* C25: after cache initialization every table holds a sequence and both
\* banner settings hold a string; a value stored before for the inventory,
\* the ledgers or a banner is left as it was.
C25_Initialized ==
    [][ret'.op = "constructor" =>
        /\ \A t \in {users', inventory', sales', purchases', expenses'} :
              DOMAIN t = 1..Len(t)
        /\ banner' # null
        /\ verticalBanner' # null
        /\ <<inventory', sales', purchases', expenses'>>
              = <<inventory, sales, purchases, expenses>>
        /\ banner # null => banner' = banner
        /\ verticalBanner # null => verticalBanner' = verticalBanner]_vars

(***************************************************************************)
(* Requests overtaking each other: the tenant buys and sells the same item *)
(* in quick succession while earlier requests are still on the wire; no    *)
(* request is lost, the gateway handles them one at a time in the order    *)
(* they arrive, which need not be the order they were sent. No pull runs.  *)
(***************************************************************************)
NextRace ==
    \/ Fresh /\ addStock("Vendor1", "Parts", "Widget", "A", Num(1), Num(5), "Cash")
    \/ Fresh /\ processSale("Widget A", Num(1), Num(5))
    \/ ~Fresh /\ Tick
    \/ Deliver

SpecRace == InitShop /\ [][NextRace]_vars

\* The rows of a sheet agree with a local table: every local record has a
\* row of its id, and every row of that id holds the record's cells.
Mirrors(rows, table) ==
    \A i \in 1..Len(table) :
        /\ \E k \in 1..Len(rows) : rows[k].id = table[i].id
        /\ \A k \in 1..Len(rows) :
              rows[k].id = table[i].id => rows[k] = rowData(table[i])

\* C24: when every request sent has reached the gateway, in whatever
\* order, the remote row of each record is the latest local version of it.
C24_RemoteCatchesUp ==
    outbox = EmptyBag =>
        /\ Mirrors(sheets["Inventory"].rows, inventory)
        /\ Mirrors(sheets["Purchases"].rows, purchases)
        /\ Mirrors(sheets["Sales"].rows, sales)

(***************************************************************************)
(* The gateway under load: the tenant buys the same item again while the   *)
(* earlier requests are still on the wire or being handled; an execution   *)
(* of doPost that does not get the script lock in time runs beside the one *)
(* that holds it.                                                          *)
(***************************************************************************)
NextGateway ==
    \/ Fresh /\ addStock("Vendor1", "Parts", "Widget", "A", Num(1), Num(5), "Cash")
    \/ ~Fresh /\ now < MaxRegTime /\ Tick
    \/ doPostBegin
    \/ doPostEnd

SpecGateway == InitShop /\ [][NextGateway]_vars

\* C23: the handling of save_record is keyed by the record id, so a sheet
\* of records never holds two rows with the same id.
C23_UniqueIds ==
    \A name \in {"Users", "Inventory", "Sales", "Purchases", "Expenses"} :
        \A i, j \in 1..Len(sheets[name].rows) :
            sheets[name].rows[i].id = sheets[name].rows[j].id => i = j

\* Handled one at a time, a request applied twice leaves the spreadsheet as
\* applied once, and a request whose id has a row leaves the number of rows.
SaveRecordSerial ==
    [][\A p \in BagToSet(outbox) :
          (sheets' = doPost(sheets, p) /\ outbox' = outbox (-) SetToBag({p})) =>
              LET before == sheets[KEY_MAP[p.key]].rows
                  after == sheets'[KEY_MAP[p.key]].rows
              IN  /\ doPost(sheets', p) = sheets'
                  /\ (\E i \in 1..Len(before) : before[i].id = p.data.id)
                        => Len(after) = Len(before)
                  /\ \A i, j \in 1..Len(after) : after[i].id = after[j].id => i = j]_vars

(***************************************************************************)
(* One page lifetime with the gateway configured: the page has loaded over *)
(* empty tables, the startup pull is scheduled; the tenant works until the *)
(* pull has completed, so every record in the tables was written while the *)
(* pull was scheduled or in flight.                                        *)
(***************************************************************************)
InWindow == phase \in {"SyncScheduled", "SyncPending"}

NextWindow ==
    \/ InWindow /\ Fresh /\ Quiet
          /\ addStock("Vendor1", "Parts", "Widget", "A", Num(1), Num(5), "Cash")
    \/ InWindow /\ Fresh /\ Quiet /\ processSale("Widget A", Num(1), Num(5))
    \/ InWindow /\ ~Fresh /\ Tick
    \/ Deliver
    \/ PullStart
    \/ PullServe
    \/ PullApply

SpecWindow == InitShop /\ [][NextWindow]_vars

\* C26: a record written while the startup pull was scheduled or in flight
\* is still in its local table when the pull has been applied.
C26_SurvivesPull ==
    [][(phase = "SyncPending" /\ phase' = "SyncApplied") =>
          /\ KeptIds(inventory, inventory')
          /\ KeptIds(sales, sales')
          /\ KeptIds(purchases, purchases')
          /\ KeptIds(expenses, expenses')]_vars

(***************************************************************************)
(* Sessions and administration on one browser without a gateway: the       *)
(* approved tenant logs in and out, reads and buys stock; the tenant's     *)
(* status is changed or the tenant is deleted.                             *)
(***************************************************************************)
InitSession ==
    /\ users = <<INITIAL_ADMIN, Acme>>
    /\ inventory = InventoryOf(<<"Acme">>)
    /\ sales = <<>>
    /\ purchases = <<>>
    /\ expenses = <<>>
    /\ currentUser = <<>>
    /\ banner = ""
    /\ verticalBanner = null
    /\ url = ""
    /\ now = 0
    /\ phase = "LocalReady"
    /\ response = NoResponse
    /\ outbox = EmptyBag
    /\ sheets = NoSheets
    /\ running = {}
    /\ ret = Ret("constructor", TRUE, "", <<>>)
    /\ calls = constructorCalls(url)

NextSession ==
    \/ login("Acme", "Owner", "pw1")
    \/ logout
    \/ \E st \in Statuses \cup {"Delete"} : updateUserStatus("user_0", st)
    \/ callGetInventory
    \/ Fresh /\ addStock("Vendor1", "Parts", "Widget", "A", Num(1), Num(5), "Cash")
    \/ ~Fresh /\ Tick

SpecSession == InitSession /\ [][NextSession]_vars

\* C27: whenever a tenant is active, the users table holds a tenant of the
\* same id whose status is Approved.
C27_ActiveIsApproved ==
    currentUser # <<>> =>
        \E i \in 1..Len(users) :
            users[i].id = currentUser[1].id /\ users[i].status = "Approved"

\* C28: updateUserStatus with the id of an Admin tenant or with an id that
\* is not in the users table returns false, changes nothing and issues no
\* push, whatever the status asked for; with 'Delete' and the id of another
\* tenant it removes exactly that tenant and issues no push.
C28_StatusGuards ==
    [][\A id \in UserIds, st \in Statuses \cup {"Delete"} :
          updateUserStatus(id, st) =>
              LET i == findIndex(users, LAMBDA u : u.id = id)
              IN  /\ (i = 0 \/ users[i].role = ADMIN) =>
                        /\ ~ret'.ok
                        /\ users' = users
                        /\ outbox' = outbox
                        /\ calls' = <<>>
                  /\ (i > 0 /\ users[i].role # ADMIN /\ st = "Delete") =>
                        /\ ret'.ok
                        /\ Len(users') = Len(users) - 1
                        /\ users' = SelectSeq(users, LAMBDA u : u.id # id)
                        /\ outbox' = outbox
                        /\ Count(calls', "pushRecord") = 0]_vars

\* A registered tenant whose row reached the spreadsheet has been deleted:
\* the users table holds the Admin record alone, the row is still remote.
C28_Witness ==
    /\ ret = Ret("updateUserStatus", TRUE, "", <<>>)
    /\ calls = <<Stored(USERS)>>
    /\ users = <<INITIAL_ADMIN>>
    /\ outbox = EmptyBag
    /\ Len(sheets["Users"].rows) = 1

\* C29: a record pushed with save_record and then returned by a pull comes
\* back, under its id, with the same value in every field.
C29_RoundTrip ==
    [][\A p \in BagToSet(outbox) :
          (/\ sheets' = doPost(sheets, p)
           /\ outbox' = outbox (-) SetToBag({p})
           /\ p.key \notin {BANNER, VERTICAL_BANNER}) =>
              LET pulled == doGet(sheets').data[p.key].arr
              IN  \E k \in 1..Len(pulled) :
                      pulled[k].id = p.data.id /\ pulled[k] = p.data]_vars

====
